---- MODULE Spec2Model ----
(***************************************************************************)
(* Model of the cluster client of the ephemeral-environment platform       *)
(* (automation/k8s_client.py): the create-or-update manifest applier,      *)
(* the kind router of standard updates and the namespace operations,       *)
(* running against a small model of the cluster API.                       *)
(*                                                                         *)
(* One step of a client is one cluster round trip together with the code   *)
(* around it, up to the next round trip or the return of the call.         *)
(***************************************************************************)
EXTENDS Integers, Sequences, FiniteSets, TLC

(***************************************************************************)
(* Bounds                                                                  *)
(***************************************************************************)
\* client calls (apply, create_namespace, delete_namespace) per behaviour
MaxOps == 2

\* the sub-calls of one create_environment / delete_environment run that
\* the cluster may answer with a fault
MaxFaults == 1

(***************************************************************************)
(* Universe of values                                                      *)
(***************************************************************************)
Procs == {1, 2}

Namespaces == {"pr-1", "pr-2"}

\* the namespaces the cluster can hold: those, and one whose suffix is not
\* a number
ClusterNamespaces == Namespaces \cup {"pr-x"}

\* no namespace / no name embedded in a document
NoNs == "-"
NoName == "-"

TableKinds == {"Deployment", "Service", "Ingress"}
CustomKinds == {"Middleware"}
Kinds == TableKinds \cup CustomKinds \cup {"ConfigMap"}

\* apiVersion values, as the list of their "/"-separated segments
ApiVersionOf(kind) ==
    CASE kind = "Deployment" -> <<"apps", "v1">>
      [] kind = "Service"    -> <<"v1">>
      [] kind = "ConfigMap"  -> <<"v1">>
      [] kind = "Ingress"    -> <<"networking.k8s.io", "v1">>
      [] OTHER               -> <<"traefik.io", "v1alpha1">>

\* resource contents: a map from field to value; a document may set only
\* some of the fields of the live resource
SpecA == [image |-> 1]
SpecB == [image |-> 2, replicas |-> 3]
NoSpec == [none |-> 0]

\* HTTP statuses; TransportFailure stands for a failure below HTTP (no
\* response), raised by the SDK as a non-API exception
FaultStatuses == {403, 500}
TransportFailure == 0

(***************************************************************************)
(* Manifest documents handed to _apply_yaml                                *)
(*   yaml : "map" a mapping, "invalid" not YAML, "empty" no document       *)
(*   meta : "map" metadata is a mapping, "null" metadata is null,          *)
(*          "missing" no metadata key                                      *)
(***************************************************************************)
MkDoc(y, av, k, m, n, e, s) ==
    [yaml |-> y, apiVersion |-> av, kind |-> k, meta |-> m, name |-> n,
     ns |-> e, spec |-> s]

GoodDocs ==
    { MkDoc("map", ApiVersionOf(k), k, "map", "app", e, s) :
        k \in Kinds, e \in {NoNs, "pr-2"}, s \in {SpecA} }
    \cup
    { MkDoc("map", ApiVersionOf(k), k, "map", "app", NoNs, SpecB) :
        k \in {"Deployment", "Middleware"} }

OddDocs ==
    { MkDoc("invalid", <<"v1">>, "Service", "map", "app", NoNs, SpecA),
      MkDoc("empty", <<"v1">>, "Service", "map", "app", NoNs, SpecA),
      MkDoc("map", <<"v1">>, "Service", "null", NoName, NoNs, SpecA),
      MkDoc("map", <<"apps", "v1">>, "Deployment", "missing", NoName, NoNs, SpecA),
      MkDoc("map", <<"traefik.containo.us", "v1alpha1">>, "Middleware", "map",
            "app", "pr-1", SpecA),
      MkDoc("map", <<"traefik.io">>, "Middleware", "map", "app", NoNs, SpecA) }

Docs == GoodDocs \cup OddDocs

(***************************************************************************)
(* _parse_yaml_manifest                                                    *)
(***************************************************************************)
None == [isNone |-> TRUE, apiVersion |-> <<>>, kind |-> "", name |-> NoName,
         namespace |-> NoNs, resourceVersion |-> 0, spec |-> NoSpec]

\* variant: a null metadata is taken as an empty mapping
ParseRaises_NullMetadataAccepted(doc) ==
    \/ doc.yaml = "invalid"
    \/ doc.yaml = "empty"

\* safe_load raises on invalid YAML; an empty document loads as None, on
\* which the membership test raises; a null metadata cannot be assigned
\* into.  All three are caught and None is returned.
ParseRaises(doc) ==
    \/ doc.yaml = "invalid"
    \/ doc.yaml = "empty"
    \/ doc.meta = "null"

\* variant: the namespace is set only when the document has none
ParseYamlManifest_KeepEmbedded(doc, namespace) ==
    IF ParseRaises(doc)
    THEN None
    ELSE [isNone |-> FALSE, apiVersion |-> doc.apiVersion, kind |-> doc.kind,
          name |-> doc.name,
          namespace |-> IF doc.ns = NoNs THEN namespace ELSE doc.ns,
          resourceVersion |-> 0, spec |-> doc.spec]

ParseYamlManifest(doc, namespace) ==
    IF ParseRaises(doc)
    THEN None
    ELSE [isNone |-> FALSE, apiVersion |-> doc.apiVersion, kind |-> doc.kind,
          name |-> doc.name, namespace |-> namespace, resourceVersion |-> 0,
          spec |-> doc.spec]

(***************************************************************************)
(* _is_traefik_crd: a substring test on apiVersion.  The needles contain   *)
(* no "/", so the test holds iff one segment contains a needle.            *)
(***************************************************************************)
SegmentContainsTraefik(seg) ==
    seg \in {"traefik.io", "traefik.containo.us"}

IsTraefikCrd(manifest) ==
    \E i \in 1..Len(manifest.apiVersion) :
        SegmentContainsTraefik(manifest.apiVersion[i])


\* api_version.split("/") unpacked into exactly (group, version)
SplitsInTwo(manifest) == Len(manifest.apiVersion) = 2

Lower(kind) ==
    CASE kind = "Middleware" -> "middleware"
      [] kind = "Deployment" -> "deployment"
      [] kind = "Service"    -> "service"
      [] kind = "Ingress"    -> "ingress"
      [] kind = "ConfigMap"  -> "configmap"
      [] OTHER               -> kind

\* variant: the group is taken from the wrong part of the split
Group_Second(manifest) == manifest.apiVersion[2]

\* group, version = api_version.split("/")
Group(manifest) == manifest.apiVersion[1]

Version(manifest) == manifest.apiVersion[2]

\* plural = kind.lower() + "s"
Plural(kind) == Lower(kind) \o "s"

(***************************************************************************)
(* State                                                                   *)
(***************************************************************************)
VARIABLES
    clients,    \* the client invocations that run in this behaviour
    nsLive,     \* cluster: the namespaces that exist
    res,        \* cluster: slot -> live resource
    clock,      \* cluster: revision counter, source of resourceVersion
    pc,         \* client -> position in the call it is executing
    op,         \* client -> the call it is executing and its arguments
    log,        \* client -> cluster calls issued by the current call, in order
    result,     \* client -> what the current call returned
    faulted,    \* client -> a cluster call of the current call met a fault
    opsDone,    \* number of client calls started
    env,        \* client -> the create_environment / delete_environment run
    comments    \* GitHub: pull request number -> id of the bot's comment

vars == <<clients, nsLive, res, clock, pc, op, log, result, faulted, opsDone,
          env, comments>>

\* resource types the cluster serves: the built-in kinds and the plural of
\* the installed custom resource
ResTypes == TableKinds \cup {"ConfigMap"} \cup {"middlewares"}
Names == {"app"}

\* the names create_environment gives to what it applies
ServiceNames == {"web", "api"}
STRIPPREFIX_MIDDLEWARE == "stripprefix"
IngressName(namespace, service) == namespace \o "-" \o service \o "-ingress"

EnvSlots ==
    UNION { ({ns} \X {"Deployment", "Service"} \X ServiceNames)
            \cup {<<ns, "middlewares", STRIPPREFIX_MIDDLEWARE>>}
            \cup {<<ns, "Ingress", IngressName(ns, s)>> : s \in ServiceNames}
          : ns \in ClusterNamespaces }

Slots == (Namespaces \X ResTypes \X Names) \cup EnvSlots

Absent == [present |-> FALSE, spec |-> NoSpec, rv |-> 0]

NsNames == Namespaces \cup {"Bad_Name", ""}

NoDoc == MkDoc("empty", <<>>, "", "missing", NoName, NoNs, NoSpec)

NoOp == [name |-> "none", method |-> "none", rendered |-> FALSE,
         doc |-> NoDoc, ns |-> NoNs, manifest |-> None,
         wasPresent |-> FALSE, wasSpec |-> NoSpec, nsWasLive |-> FALSE,
         second |-> FALSE, firstResult |-> "None"]

\* GitHub side: the pull requests and the ids of the bot's comments
PrNumbers == {1, 2}
NoComment == "none"
CommentIds == {"c1", "c2"}

\* a service entry of the configuration file; ingress is ingress.enabled
Svc(n, i, pt, en, path) ==
    [name |-> n, image |-> i, port |-> pt, ingress |-> en, path |-> path]

NoService == Svc(NoName, "-", 0, FALSE, "-")

NoEnv == [name |-> "none", namespace |-> NoNs, config |-> <<>>,
          github |-> FALSE, template_dir |-> "-", phase |-> "none", pos |-> 0,
          ingress_created |-> FALSE, found |-> NoComment, ret |-> "None",
          calls |-> <<>>, notes |-> <<>>]


(***************************************************************************)
(* The cluster API, as far as the client observes it                       *)
(***************************************************************************)
Live(type, ns, name) ==
    IF <<ns, type, name>> \in Slots THEN res[<<ns, type, name>>] ELSE Absent

\* merge-patch: the fields of the body replace those of the live object,
\* the other fields of the live object stay
Merge(live, body) ==
    [f \in (DOMAIN live) \cup (DOMAIN body) |->
        IF f \in DOMAIN body THEN body[f] ELSE live[f]]

CreateStatus(type, ns, name) ==
    IF name = NoName THEN 422
    ELSE IF ns \notin nsLive \/ <<ns, type, name>> \notin Slots THEN 404
    ELSE IF Live(type, ns, name).present THEN 409
    ELSE 201

GetStatus(type, ns, name) ==
    IF Live(type, ns, name).present THEN 200 ELSE 404

\* a body that carries a resourceVersion is accepted only if it is the
\* live one (optimistic concurrency)
PatchStatus(type, ns, name, rv) ==
    IF ~Live(type, ns, name).present THEN 404
    ELSE IF rv # 0 /\ rv # Live(type, ns, name).rv THEN 409
    ELSE 200

\* what a call may be answered with: the status the cluster state
\* dictates, or a fault
Statuses(faithful) == {faithful} \cup FaultStatuses \cup {TransportFailure}

IsFault(status, faithful) == status # faithful

ClusterAfterCreate(type, ns, name, body) ==
    [res EXCEPT ![<<ns, type, name>>] =
        [present |-> TRUE, spec |-> body.spec, rv |-> clock + 1]]

ClusterAfterPatch(type, ns, name, body) ==
    [res EXCEPT ![<<ns, type, name>>] =
        [present |-> TRUE, spec |-> Merge(@.spec, body.spec), rv |-> clock + 1]]

\* one entry of the call log
Call(c, type, ns, name, body, status) ==
    [call |-> c, type |-> type, ns |-> ns, name |-> name, body |-> body,
     status |-> status, api |-> <<>>]

\* a call of CustomObjectsApi, addressed by (group, version, namespace,
\* plural)
CustomCall(c, manifest, type, ns, name, body, status) ==
    [Call(c, type, ns, name, body, status) EXCEPT
        !.api = <<Group(manifest), Version(manifest)>>]

TypeOK ==
    /\ clients \subseteq Procs
    /\ nsLive \subseteq ClusterNamespaces
    /\ clock \in Nat
    /\ opsDone \in 0..(MaxOps + 1)
    /\ \A p \in Procs : pc[p] \in {"idle", "std_create", "std_update",
                                   "crd_create", "crd_fetch", "crd_patch",
                                   "ns_create", "ns_delete", "done"}
    /\ \A p \in Procs : result[p] \in {"None", "True", "False", "Raise"}


(***************************************************************************)
(* Answers of the SDK calls                                                *)
(*   exc  : "none", or the class of the exception the call raises          *)
(*   text : str(exception) contains "AlreadyExists" or "Conflict"          *)
(***************************************************************************)
\* the typed SDK calls raise ApiException on an error status and another
\* exception when there is no response
SdkAnswer(status) ==
    [status |-> status,
     exc |-> IF status = TransportFailure THEN "Exception"
             ELSE IF status >= 400 THEN "ApiException" ELSE "none",
     text |-> FALSE]

SdkAnswers(faithful) == { SdkAnswer(s) : s \in Statuses(faithful) }

\* utils.create_from_dict reports an error status as FailToCreateError,
\* whose text is "Error from server (<reason>): <body>": for 409 the reason
\* is "Conflict"; for another status the body decides.  The tests let it
\* raise a bare ApiException as well.
StdCreateAnswers(faithful) ==
    { a \in [status : Statuses(faithful),
             exc : {"none", "FailToCreateError", "ApiException", "Exception"},
             text : BOOLEAN] :
        /\ (a.status = TransportFailure) <=> (a.exc = "Exception")
        /\ (a.status \in {200, 201}) <=> (a.exc = "none")
        /\ (a.exc # "FailToCreateError") => ~a.text
        /\ (a.exc = "FailToCreateError" /\ a.status = 409) => a.text }

(***************************************************************************)
(* Decisions of the applier and of the router                              *)
(* A decision is the position the client moves to: a further round trip,   *)
(* or "ret_true" / "ret_false" (the call returns) or "raise" (an           *)
(* exception leaves the call).                                             *)
(***************************************************************************)
\* manifest.get("metadata", {}).get("name", "unknown")
ResourceName(manifest) ==
    IF manifest.name = NoName THEN "unknown" ELSE manifest.name

\* _apply_yaml up to the first round trip
ApplyEntry(manifest) ==
    IF manifest.isNone THEN "ret_false"
    ELSE IF IsTraefikCrd(manifest)
         THEN (IF SplitsInTwo(manifest) THEN "crd_create" ELSE "ret_false")
         ELSE "std_create"

\* variant: a conflict is not recovered from
AfterStdCreate_NoRecovery(a) ==
    IF a.exc = "none" THEN "ret_true" ELSE "ret_false"

\* variant: the update follows a successful create as well
AfterStdCreate_AlwaysUpdate(a) ==
    CASE a.exc = "none" -> "std_update"
      [] a.exc = "FailToCreateError" ->
            IF a.text THEN "std_update" ELSE "ret_false"
      [] a.exc = "ApiException" ->
            IF a.status = 409 THEN "std_update" ELSE "ret_false"
      [] OTHER -> "ret_false"

\* _apply_standard_resource after create_from_dict
AfterStdCreate(a) ==
    CASE a.exc = "none" -> "ret_true"
      [] a.exc = "FailToCreateError" ->
            IF a.text THEN "std_update" ELSE "ret_false"
      [] a.exc = "ApiException" ->
            IF a.status = 409 THEN "std_update" ELSE "ret_false"
      [] OTHER -> "ret_false"

\* variant: an Ingress is routed to the service update
UpdateCallFor_IngressAsService(kind) ==
    CASE kind = "Deployment" -> "patch_namespaced_deployment"
      [] kind = "Service"    -> "patch_namespaced_service"
      [] kind = "Ingress"    -> "patch_namespaced_service"
      [] OTHER               -> "none"

\* variant: a Deployment is routed to the service update
UpdateCallFor_DeploymentAsService(kind) ==
    CASE kind = "Deployment" -> "patch_namespaced_service"
      [] kind = "Service"    -> "patch_namespaced_service"
      [] kind = "Ingress"    -> "patch_namespaced_ingress"
      [] OTHER               -> "none"

\* variant: a kind outside the table falls back to the deployment update
UpdateCallFor_Fallback(kind) ==
    CASE kind = "Service"    -> "patch_namespaced_service"
      [] kind = "Ingress"    -> "patch_namespaced_ingress"
      [] OTHER               -> "patch_namespaced_deployment"

\* the dispatch table of _update_standard_resource
UpdateCallFor(kind) ==
    CASE kind = "Deployment" -> "patch_namespaced_deployment"
      [] kind = "Service"    -> "patch_namespaced_service"
      [] kind = "Ingress"    -> "patch_namespaced_ingress"
      [] OTHER               -> "none"

\* the resource type a typed patch call addresses
TypeOfCall(call) ==
    CASE call = "patch_namespaced_deployment" -> "Deployment"
      [] call = "patch_namespaced_service"    -> "Service"
      [] call = "patch_namespaced_ingress"    -> "Ingress"
      [] OTHER                                -> "none"

\* variant: a failed update starts the apply over
AfterStdUpdate_Retry(a) ==
    CASE a.exc = "none" -> "ret_true"
      [] a.exc = "ApiException" -> "std_create"
      [] OTHER -> "raise"

\* variant: the ApiException of the patch call is passed on
AfterStdUpdate_Propagates(a) ==
    CASE a.exc = "none" -> "ret_true"
      [] OTHER -> "raise"

\* _update_standard_resource after the patch call; it runs inside an
\* except clause of _apply_standard_resource, so what it does not catch
\* leaves _apply_yaml
AfterStdUpdate(a) ==
    CASE a.exc = "none" -> "ret_true"
      [] a.exc = "ApiException" -> "ret_false"
      [] OTHER -> "raise"

\* _apply_traefik_crd after create_namespaced_custom_object
AfterCrdCreate(a) ==
    CASE a.exc = "none" -> "ret_true"
      [] a.exc = "ApiException" ->
            IF a.status = 409 THEN "crd_fetch" ELSE "ret_false"
      [] OTHER -> "ret_false"

\* _update_traefik_crd after get_namespaced_custom_object; an exception
\* it does not catch is caught by _apply_traefik_crd
AfterCrdFetch(a) ==
    IF a.exc = "none" THEN "crd_patch" ELSE "ret_false"

\* variant: the fetched resourceVersion is not copied into the manifest
InjectResourceVersion_Skip(manifest, current) == manifest

\* manifest["metadata"]["resourceVersion"] = current[...]["resourceVersion"]
InjectResourceVersion(manifest, current) ==
    [manifest EXCEPT !.resourceVersion = current.rv]

\* variant: a rejected update is followed by a new fetch
AfterCrdPatch_Refetch(a) ==
    CASE a.exc = "none" -> "ret_true"
      [] a.exc = "ApiException" ->
            IF a.status = 409 THEN "crd_fetch" ELSE "ret_false"
      [] OTHER -> "ret_false"

\* _update_traefik_crd after patch_namespaced_custom_object
AfterCrdPatch(a) ==
    IF a.exc = "none" THEN "ret_true" ELSE "ret_false"

\* variant: an existing namespace is reported as a failure
AfterNsCreate_ConflictFails(a) ==
    CASE a.exc = "none" -> "ret_true"
      [] a.exc = "ApiException" -> "ret_false"
      [] OTHER -> "raise"

\* create_namespace after v1.create_namespace
AfterNsCreate(a) ==
    CASE a.exc = "none" -> "ret_true"
      [] a.exc = "ApiException" ->
            IF a.status = 409 THEN "ret_true" ELSE "ret_false"
      [] OTHER -> "raise"

\* variant: the 404 of a missing namespace is passed on to the caller
AfterNsDelete_NotFoundRaises(a) ==
    CASE a.exc = "none" -> "ret_true"
      [] a.exc = "ApiException" ->
            IF a.status = 404 THEN "raise" ELSE "ret_false"
      [] OTHER -> "raise"

\* delete_namespace after v1.delete_namespace
AfterNsDelete(a) ==
    CASE a.exc = "none" -> "ret_true"
      [] a.exc = "ApiException" -> "ret_false"
      [] OTHER -> "raise"


(***************************************************************************)
(* Validation of names, images and ports                                   *)
(***************************************************************************)
Digits == {"0", "1", "2", "3", "4", "5", "6", "7", "8", "9"}

LowerAlnum ==
    {"a", "b", "c", "d", "e", "f", "g", "h", "i", "j", "k", "l", "m", "n",
     "o", "p", "q", "r", "s", "t", "u", "v", "w", "x", "y", "z"} \cup Digits

UpperAlpha ==
    {"A", "B", "C", "D", "E", "F", "G", "H", "I", "J", "K", "L", "M", "N",
     "O", "P", "Q", "R", "S", "T", "U", "V", "W", "X", "Y", "Z"}

CharAt(s, i) == SubSeq(s, i, i)

HasChar(s, ch) == \E i \in 1..Len(s) : CharAt(s, i) = ch

\* _validate_k8s_name: non-empty, at most 63 characters, and a match of
\* ^[a-z0-9]([-a-z0-9]*[a-z0-9])?$
ValidK8sName(name) ==
    /\ name # ""
    /\ Len(name) <= 63
    /\ CharAt(name, 1) \in LowerAlnum
    /\ CharAt(name, Len(name)) \in LowerAlnum
    /\ \A i \in 1..Len(name) : CharAt(name, i) \in LowerAlnum \cup {"-"}

\* ^[a-zA-Z0-9_][a-zA-Z0-9._-]{0,127}$
ValidTag(tag) ==
    /\ tag # ""
    /\ Len(tag) <= 128
    /\ CharAt(tag, 1) \in LowerAlnum \cup UpperAlpha \cup {"_"}
    /\ \A i \in 1..Len(tag) :
            CharAt(tag, i) \in LowerAlnum \cup UpperAlpha \cup {".", "_", "-"}

\* what may stand between two runs of [a-z0-9]+ in the name pattern: one
\* separator (".", "_", "__" or hyphens) or the "/" between two components
ValidSeparator(run) ==
    \/ run \in {".", "_", "__", "/"}
    \/ \A i \in 1..Len(run) : CharAt(run, i) = "-"

\* ^[a-z0-9]+((\.|_|__|-+)[a-z0-9]+)*(\/[a-z0-9]+((\.|_|__|-+)[a-z0-9]+)*)*$
ValidRepoName(s) ==
    /\ s # ""
    /\ CharAt(s, 1) \in LowerAlnum
    /\ CharAt(s, Len(s)) \in LowerAlnum
    /\ \A i \in 1..Len(s) :
            CharAt(s, i) \in LowerAlnum \cup {".", "_", "-", "/"}
    /\ \A i \in 2..(Len(s) - 1), j \in 2..(Len(s) - 1) :
            ( /\ i <= j
              /\ CharAt(s, i - 1) \in LowerAlnum
              /\ CharAt(s, j + 1) \in LowerAlnum
              /\ \A k \in i..j : CharAt(s, k) \notin LowerAlnum )
            => ValidSeparator(SubSeq(s, i, j))

\* image.rsplit(":", 1)
LastColon(image) ==
    CHOOSE i \in 1..Len(image) :
        /\ CharAt(image, i) = ":"
        /\ \A j \in (i + 1)..Len(image) : CharAt(image, j) # ":"

\* name_part.split("/", 1)
FirstSlash(s) ==
    CHOOSE i \in 1..Len(s) :
        /\ CharAt(s, i) = "/"
        /\ \A j \in 1..(i - 1) : CharAt(s, j) # "/"

\* _validate_image_name: the registry host in front of the first "/" is
\* not looked at
ValidImageName(image) ==
    /\ image # ""
    /\ HasChar(image, ":")
    /\ LET name_part == SubSeq(image, 1, LastColon(image) - 1)
           tag == SubSeq(image, LastColon(image) + 1, Len(image))
           repo_path == IF HasChar(name_part, "/")
                        THEN SubSeq(name_part, FirstSlash(name_part) + 1,
                                    Len(name_part))
                        ELSE name_part
       IN /\ ValidTag(tag)
          /\ ValidRepoName(repo_path)
    /\ Len(image) <= 255

\* _validate_port (the ports of a parsed configuration are integers)
ValidPort(port) == port \in Int /\ 1 <= port /\ port <= 65535

PcOf(d) == IF d \in {"ret_true", "ret_false", "raise"} THEN "done" ELSE d

ResultOf(d) ==
    CASE d = "ret_true"  -> "True"
      [] d = "ret_false" -> "False"
      [] d = "raise"     -> "Raise"
      [] OTHER           -> "None"

\* the client moves on as decided
Goto(p, d) ==
    /\ pc' = [pc EXCEPT ![p] = PcOf(d)]
    /\ result' = [result EXCEPT ![p] = ResultOf(d)]

Logged(p, c, faithful) ==
    /\ log' = [log EXCEPT ![p] = Append(@, c)]
    /\ faulted' = [faulted EXCEPT ![p] = @ \/ IsFault(c.status, faithful)]


(***************************************************************************)
(* Initial states: one client, idle, in front of a cluster that holds      *)
(* none, one or both of the namespaces and at most one earlier resource    *)
(***************************************************************************)
AllAbsent == [s \in Slots |-> Absent]

Earlier == [present |-> TRUE, spec |-> SpecB, rv |-> 1]

InitClusters(live) ==
    {AllAbsent} \cup
    { [AllAbsent EXCEPT ![s] = Earlier] : s \in { t \in Slots : t[1] \in live /\ t[1] = "pr-1" /\ t[3] \in Names } }

InitClient ==
    /\ pc = [p \in Procs |-> "idle"]
    /\ op = [p \in Procs |-> NoOp]
    /\ log = [p \in Procs |-> <<>>]
    /\ result = [p \in Procs |-> "None"]
    /\ faulted = [p \in Procs |-> FALSE]
    /\ opsDone = 0
    /\ env = [p \in Procs |-> NoEnv]

Init ==
    /\ clients = {1}
    /\ nsLive \in {{}, {"pr-1"}, Namespaces}
    /\ res \in InitClusters(nsLive)
    /\ clock = 1
    /\ InitClient
    /\ comments = [n \in PrNumbers |-> NoComment]

(***************************************************************************)
(* _apply_yaml                                                             *)
(***************************************************************************)
\* the resource type an apply of this manifest addresses
TargetType(manifest) ==
    IF IsTraefikCrd(manifest) THEN Plural(manifest.kind) ELSE manifest.kind

\* _apply_yaml(yaml_content, namespace) is entered, by the method named
Enter(p, method, doc, ns, second, first) ==
    LET manifest == ParseYamlManifest(doc, ns) IN
    /\ op' = [op EXCEPT ![p] =
                [name |-> "apply", method |-> method,
                 rendered |-> method # "_apply_yaml",
                 doc |-> doc, ns |-> ns,
                 manifest |-> manifest,
                 wasPresent |-> Live(TargetType(manifest), ns, manifest.name).present,
                 wasSpec |-> Live(TargetType(manifest), ns, manifest.name).spec,
                 nsWasLive |-> ns \in nsLive,
                 second |-> second, firstResult |-> first]]
    /\ log' = [log EXCEPT ![p] = <<>>]
    /\ faulted' = [faulted EXCEPT ![p] = FALSE]
    /\ Goto(p, ApplyEntry(manifest))

Begin(p, doc, ns, second, first) ==
    /\ Enter(p, "_apply_yaml", doc, ns, second, first)
    /\ opsDone' = opsDone + 1
    /\ UNCHANGED <<clients, nsLive, res, clock, env, comments>>

\* a caller invokes _apply_yaml(yaml_content, namespace)
StartApply(p, doc, ns) ==
    /\ pc[p] = "idle"
    /\ opsDone < MaxOps
    /\ Begin(p, doc, ns, FALSE, "None")

\* the caller invokes _apply_yaml again with the same arguments, right
\* after the first invocation returned
ReApply(p) ==
    /\ pc[p] = "done"
    /\ op[p].name = "apply"
    /\ ~op[p].second
    /\ opsDone < MaxOps
    /\ Begin(p, op[p].doc, op[p].ns, TRUE, result[p])

\* utils.create_from_dict(self.v1.api_client, manifest): the library
\* addresses the namespace found in the manifest's metadata
StdCreate(p) ==
    /\ pc[p] = "std_create"
    /\ LET m == op[p].manifest
           faithful == CreateStatus(m.kind, m.namespace, m.name)
       IN \E a \in StdCreateAnswers(faithful) :
            /\ Logged(p, Call("create_from_dict", m.kind, m.namespace, m.name,
                              m, a.status), faithful)
            /\ IF a.status = 201
               THEN /\ res' = ClusterAfterCreate(m.kind, m.namespace, m.name, m)
                    /\ clock' = clock + 1
               ELSE UNCHANGED <<res, clock>>
            /\ Goto(p, AfterStdCreate(a))
    /\ UNCHANGED <<clients, nsLive, op, opsDone, env, comments>>

\* _update_standard_resource(manifest, namespace, kind, resource_name)
StdUpdate(p) ==
    /\ pc[p] = "std_update"
    /\ LET m == op[p].manifest
           ns == op[p].ns
           name == ResourceName(m)
           call == UpdateCallFor(m.kind)
           type == TypeOfCall(call)
           faithful == PatchStatus(type, ns, name, m.resourceVersion)
       IN IF call = "none"
          THEN /\ Goto(p, "ret_false")
               /\ UNCHANGED <<res, clock, log, faulted>>
          ELSE \E a \in SdkAnswers(faithful) :
                /\ Logged(p, Call(call, type, ns, name, m, a.status), faithful)
                /\ IF a.status = 200
                   THEN /\ res' = ClusterAfterPatch(type, ns, name, m)
                        /\ clock' = clock + 1
                   ELSE UNCHANGED <<res, clock>>
                /\ Goto(p, AfterStdUpdate(a))
    /\ UNCHANGED <<clients, nsLive, op, opsDone, env, comments>>

\* custom_api.create_namespaced_custom_object(group, version, namespace,
\* plural, body)
CrdCreate(p) ==
    /\ pc[p] = "crd_create"
    /\ LET m == op[p].manifest
           ns == op[p].ns
           type == Plural(m.kind)
           faithful == CreateStatus(type, ns, m.name)
       IN \E a \in SdkAnswers(faithful) :
            /\ Logged(p, CustomCall("create_namespaced_custom_object", m, type, ns,
                              m.name, m, a.status), faithful)
            /\ IF a.status = 201
               THEN /\ res' = ClusterAfterCreate(type, ns, m.name, m)
                    /\ clock' = clock + 1
               ELSE UNCHANGED <<res, clock>>
            /\ Goto(p, AfterCrdCreate(a))
    /\ UNCHANGED <<clients, nsLive, op, opsDone, env, comments>>

\* _update_traefik_crd, first half: get_namespaced_custom_object and the
\* copy of its resourceVersion into the manifest
CrdFetch(p) ==
    /\ pc[p] = "crd_fetch"
    /\ LET m == op[p].manifest
           ns == op[p].ns
           type == Plural(m.kind)
           name == ResourceName(m)
           faithful == GetStatus(type, ns, name)
       IN \E a \in SdkAnswers(faithful) :
            /\ Logged(p, CustomCall("get_namespaced_custom_object", m, type, ns, name,
                              [m EXCEPT !.resourceVersion = Live(type, ns, name).rv],
                              a.status), faithful)
            /\ op' = [op EXCEPT ![p].manifest =
                        IF a.status = 200
                        THEN InjectResourceVersion(m, Live(type, ns, name))
                        ELSE m]
            /\ Goto(p, AfterCrdFetch(a))
    /\ UNCHANGED <<clients, nsLive, res, clock, opsDone, env, comments>>

\* _update_traefik_crd, second half: patch_namespaced_custom_object
CrdPatch(p) ==
    /\ pc[p] = "crd_patch"
    /\ LET m == op[p].manifest
           ns == op[p].ns
           type == Plural(m.kind)
           name == ResourceName(m)
           faithful == PatchStatus(type, ns, name, m.resourceVersion)
       IN \E a \in SdkAnswers(faithful) :
            /\ Logged(p, CustomCall("patch_namespaced_custom_object", m, type, ns, name,
                              m, a.status), faithful)
            /\ IF a.status = 200
               THEN /\ res' = ClusterAfterPatch(type, ns, name, m)
                    /\ clock' = clock + 1
               ELSE UNCHANGED <<res, clock>>
            /\ Goto(p, AfterCrdPatch(a))
    /\ UNCHANGED <<clients, nsLive, op, opsDone, env, comments>>

(***************************************************************************)
(* create_namespace, delete_namespace                                      *)
(***************************************************************************)
\* a method of the client is entered that has not reached _apply_yaml
EnterMethod(p, opname, name, rendered) ==
    /\ op' = [op EXCEPT ![p] =
                [NoOp EXCEPT !.name = opname, !.method = opname,
                             !.rendered = rendered, !.ns = name,
                             !.nsWasLive = name \in nsLive]]
    /\ log' = [log EXCEPT ![p] = <<>>]
    /\ faulted' = [faulted EXCEPT ![p] = FALSE]

BeginNs(p, opname, name) ==
    /\ EnterMethod(p, opname, name, FALSE)
    /\ opsDone' = opsDone + 1
    /\ UNCHANGED <<clients, nsLive, res, clock, env, comments>>

StartCreateNamespace(p, name) ==
    /\ pc[p] = "idle"
    /\ opsDone < MaxOps
    /\ BeginNs(p, "create_namespace", name)
    /\ Goto(p, IF ValidK8sName(name) THEN "ns_create" ELSE "ret_false")

NsCreateStatus(name) == IF name \in nsLive THEN 409 ELSE 201

\* self.v1.create_namespace(namespace)
NsCreate(p) ==
    /\ pc[p] = "ns_create"
    /\ LET name == op[p].ns
           faithful == NsCreateStatus(name)
       IN \E a \in SdkAnswers(faithful) :
            /\ Logged(p, Call("create_namespace", "Namespace", name, name,
                              None, a.status), faithful)
            /\ nsLive' = IF a.status = 201 THEN nsLive \cup {name} ELSE nsLive
            /\ Goto(p, AfterNsCreate(a))
    /\ UNCHANGED <<clients, res, clock, op, opsDone, env, comments>>

StartDeleteNamespace(p, name) ==
    /\ pc[p] = "idle"
    /\ opsDone < MaxOps
    /\ BeginNs(p, "delete_namespace", name)
    /\ Goto(p, IF ValidK8sName(name) THEN "ns_delete" ELSE "ret_false")

NsDeleteStatus(name) == IF name \in nsLive THEN 200 ELSE 404

\* self.v1.delete_namespace(name): the namespace goes, and with it
\* everything inside it
NsDelete(p) ==
    /\ pc[p] = "ns_delete"
    /\ LET name == op[p].ns
           faithful == NsDeleteStatus(name)
       IN \E a \in SdkAnswers(faithful) :
            /\ Logged(p, Call("delete_namespace", "Namespace", name, name,
                              None, a.status), faithful)
            /\ IF a.status = 200
               THEN /\ nsLive' = nsLive \ {name}
                    /\ res' = [s \in Slots |-> IF s[1] = name THEN Absent ELSE res[s]]
               ELSE UNCHANGED <<nsLive, res>>
            /\ Goto(p, AfterNsDelete(a))
    /\ UNCHANGED <<clients, clock, op, opsDone, env, comments>>

\* the call has returned; the client is free for the next call
Return(p) ==
    /\ pc[p] = "done"
    /\ pc' = [pc EXCEPT ![p] = "idle"]
    /\ op' = [op EXCEPT ![p] = NoOp]
    /\ log' = [log EXCEPT ![p] = <<>>]
    /\ result' = [result EXCEPT ![p] = "None"]
    /\ faulted' = [faulted EXCEPT ![p] = FALSE]
    /\ UNCHANGED <<clients, nsLive, res, clock, opsDone, env, comments>>

Next ==
    \/ \E p \in clients, doc \in Docs, ns \in Namespaces : StartApply(p, doc, ns)
    \/ \E p \in clients : ReApply(p)
    \/ \E p \in clients : StdCreate(p)
    \/ \E p \in clients : StdUpdate(p)
    \/ \E p \in clients : CrdCreate(p)
    \/ \E p \in clients : CrdFetch(p)
    \/ \E p \in clients : CrdPatch(p)
    \/ \E p \in clients, name \in NsNames : StartCreateNamespace(p, name)
    \/ \E p \in clients : NsCreate(p)
    \/ \E p \in clients, name \in NsNames : StartDeleteNamespace(p, name)
    \/ \E p \in clients : NsDelete(p)
    \/ \E p \in clients : Return(p)

Spec == Init /\ [][Next]_vars


(***************************************************************************)
(* The configuration file and the steps of an environment run              *)
(***************************************************************************)
\* configuration files: load_config returns the services of a loadable
\* file and raises ConfigError on any other
ConfigFile(ok, services) == [loadable |-> ok, services |-> services]

TwoRouted ==
    <<Svc("web", "nginx:1.25", 80, TRUE, "/"),
      Svc("api", "ghcr.io/org/api:v1", 8080, TRUE, "/api")>>

Mixed ==
    <<Svc("web", "nginx:1.25", 80, FALSE, "/"),
      Svc("api", "ghcr.io/org/api:v1", 8080, TRUE, "/api")>>

Unrouted == <<Svc("web", "nginx:1.25", 80, FALSE, "/")>>

\* the parser checks only the types of name, image and port
Invalid ==
    <<Svc("web", "nginx", 80, TRUE, "/"),
      Svc("api", "ghcr.io/org/api:v1", 0, TRUE, "/api"),
      Svc("Web_App", "nginx:1.25", 80, FALSE, "/")>>

Unloadable == ConfigFile(FALSE, <<>>)

\* namespace = f"{NAMESPACE_PREFIX}{args.pr_number}"
NAMESPACE_PREFIX == "pr-"
EnvNamespaces == { NAMESPACE_PREFIX \o n : n \in {"1", "X"} }

\* one call of a method of the client, with the service it is made for
Step(fn, name, service) == [fn |-> fn, name |-> name, service |-> service]

\* for service in config["services"]: create_deployment, create_service
PairSteps(services) ==
    [k \in 1..(2 * Len(services)) |->
        LET service == services[(k + 1) \div 2] IN
        IF k % 2 = 1
        THEN Step("create_deployment", service.name, service)
        ELSE Step("create_service", service.name, service)]

\* if service.get("ingress", {}).get("enabled", False)
Routed(services) == SelectSeq(services, LAMBDA service : service.ingress)

IngressSteps(namespace, services) ==
    [k \in 1..Len(Routed(services)) |->
        Step("create_ingress",
             IngressName(namespace, Routed(services)[k].name),
             Routed(services)[k])]

\* variant: the namespace is deleted at the end of the run
CreateSteps_Cleanup(namespace, services) ==
    <<Step("create_namespace", namespace, NoService)>>
    \o PairSteps(services)
    \o <<Step("create_middleware", STRIPPREFIX_MIDDLEWARE, NoService)>>
    \o IngressSteps(namespace, services)
    \o <<Step("delete_namespace", namespace, NoService)>>

\* variant: the ingresses are applied before the middleware
CreateSteps_IngressFirst(namespace, services) ==
    <<Step("create_namespace", namespace, NoService)>>
    \o PairSteps(services)
    \o IngressSteps(namespace, services)
    \o <<Step("create_middleware", STRIPPREFIX_MIDDLEWARE, NoService)>>

\* the calls create_environment makes when none of them raises
CreateSteps(namespace, services) ==
    <<Step("create_namespace", namespace, NoService)>>
    \o PairSteps(services)
    \o <<Step("create_middleware", STRIPPREFIX_MIDDLEWARE, NoService)>>
    \o IngressSteps(namespace, services)

\* variant: the deletion is issued a second time
DeleteSteps_Twice(namespace) ==
    <<Step("delete_namespace", namespace, NoService),
      Step("delete_namespace", namespace, NoService)>>

\* variant: the namespace deleted is that of the first pull request
DeleteSteps_Fixed(namespace) ==
    <<Step("delete_namespace", NAMESPACE_PREFIX \o "1", NoService)>>

\* the call delete_environment makes
DeleteSteps(namespace) == <<Step("delete_namespace", namespace, NoService)>>

EnvSteps(e) ==
    IF e.name = "create_environment"
    THEN CreateSteps(e.namespace, e.config)
    ELSE DeleteSteps(e.namespace)

CurrentStep(p) == EnvSteps(env[p])[env[p].pos]

(***************************************************************************)
(* create_deployment, create_service, create_middleware, create_ingress    *)
(***************************************************************************)
\* variant: create_service does not validate its ports
ValidArgs_ServicePortUnchecked(step, namespace) ==
    CASE step.fn = "create_deployment" ->
            /\ ValidK8sName(step.name)
            /\ ValidK8sName(namespace)
            /\ ValidImageName(step.service.image)
            /\ ValidPort(step.service.port)
      [] step.fn = "create_service" ->
            /\ ValidK8sName(step.name)
            /\ ValidK8sName(namespace)
      [] step.fn = "create_middleware" ->
            /\ ValidK8sName(step.name)
            /\ ValidK8sName(namespace)
      [] step.fn = "create_ingress" ->
            /\ ValidK8sName(step.name)
            /\ ValidK8sName(namespace)
            /\ ValidPort(step.service.port)
      [] OTHER -> ValidK8sName(step.name)

\* the validations a method runs before anything else
ValidArgs(step, namespace) ==
    CASE step.fn = "create_deployment" ->
            /\ ValidK8sName(step.name)
            /\ ValidK8sName(namespace)
            /\ ValidImageName(step.service.image)
            /\ ValidPort(step.service.port)
      [] step.fn = "create_service" ->
            /\ ValidK8sName(step.name)
            /\ ValidK8sName(namespace)
            /\ ValidPort(step.service.port)
      [] step.fn = "create_middleware" ->
            /\ ValidK8sName(step.name)
            /\ ValidK8sName(namespace)
      [] step.fn = "create_ingress" ->
            /\ ValidK8sName(step.name)
            /\ ValidK8sName(namespace)
            /\ ValidPort(step.service.port)
      [] OTHER -> ValidK8sName(step.name)

\* the kind of the document a method's template renders
TemplateKind(fn) ==
    CASE fn = "create_deployment" -> "Deployment"
      [] fn = "create_service"    -> "Service"
      [] fn = "create_middleware" -> "Middleware"
      [] fn = "create_ingress"    -> "Ingress"

\* the data a method hands to its template
TemplateData(step, namespace) ==
    CASE step.fn = "create_deployment" ->
            [image |-> step.service.image, port |-> step.service.port]
      [] step.fn = "create_service" ->
            [port |-> step.service.port, target_port |-> step.service.port]
      [] step.fn = "create_middleware" ->
            [prefixes |-> "/" \o namespace]
      [] step.fn = "create_ingress" ->
            [path |-> "/" \o namespace \o step.service.path,
             service_name |-> step.service.name,
             service_port |-> step.service.port,
             middleware_name |-> STRIPPREFIX_MIDDLEWARE]

\* render_template: the document, an empty rendering, or TemplateError
\* (the template is missing, malformed, or uses an undefined variable).
\* The outcome is that of the template file in the directory of the run.
TemplateDirs == {"complete", "deployment_missing", "service_empty"}

RenderOutcome(template_dir, fn) ==
    CASE template_dir = "deployment_missing" /\ fn = "create_deployment" ->
            "TemplateError"
      [] template_dir = "service_empty" /\ fn = "create_service" -> "empty"
      [] OTHER -> "document"

RenderTemplate(step, namespace) ==
    MkDoc("map", ApiVersionOf(TemplateKind(step.fn)), TemplateKind(step.fn),
          "map", step.name, namespace, TemplateData(step, namespace))

\* a create_* method of the client, called by create_environment, up to
\* its first round trip: validation, rendering, entry of _apply_yaml
CreateResource(p, fn) ==
    /\ pc[p] = "idle"
    /\ env[p].phase = "steps"
    /\ CurrentStep(p).fn = fn
    /\ LET step == CurrentStep(p)
           namespace == env[p].namespace
       IN IF ~ValidArgs(step, namespace)
          THEN /\ EnterMethod(p, fn, namespace, FALSE)
               /\ Goto(p, "ret_false")
          ELSE LET rendering == RenderOutcome(env[p].template_dir, fn) IN
                CASE rendering = "TemplateError" ->
                        /\ EnterMethod(p, fn, namespace, TRUE)
                        /\ Goto(p, "raise")
                  [] rendering = "empty" ->
                        /\ EnterMethod(p, fn, namespace, TRUE)
                        /\ Goto(p, "ret_false")
                  [] OTHER ->
                        Enter(p, fn, RenderTemplate(step, namespace),
                              namespace, FALSE, "None")
    /\ UNCHANGED <<clients, nsLive, res, clock, opsDone, env, comments>>

CreateDeployment(p) == CreateResource(p, "create_deployment")

CreateService(p) == CreateResource(p, "create_service")

CreateMiddleware(p) == CreateResource(p, "create_middleware")

CreateIngress(p) == CreateResource(p, "create_ingress")

\* create_namespace / delete_namespace, called by create_environment /
\* delete_environment, up to the round trip
NamespaceMethod(p, fn, pos) ==
    /\ pc[p] = "idle"
    /\ env[p].phase = "steps"
    /\ CurrentStep(p).fn = fn
    /\ EnterMethod(p, fn, CurrentStep(p).name, FALSE)
    /\ Goto(p, IF ValidArgs(CurrentStep(p), env[p].namespace)
               THEN pos ELSE "ret_false")
    /\ UNCHANGED <<clients, nsLive, res, clock, opsDone, env, comments>>

CreateNamespace(p) == NamespaceMethod(p, "create_namespace", "ns_create")

DeleteNamespace(p) == NamespaceMethod(p, "delete_namespace", "ns_delete")

(***************************************************************************)
(* create_environment, delete_environment                                  *)
(***************************************************************************)
\* the return value of a method is not looked at; an exception leaves the
\* try block
AfterStep(res_) ==
    IF res_ = "Raise" THEN "abort" ELSE "next"

\* variant: a GitHubError ends the run as a failure
AfterNotify_Fatal(outcome) ==
    IF outcome = "GitHubError" THEN "False" ELSE "True"

\* except GitHubError: a warning, and the run returns True all the same
AfterNotify(outcome) == "True"

\* variant: a comment is always posted
SendCallFor_AlwaysPost(found) == "post_comment"

\* if existing_comment_id: update_comment else: post_comment
SendCallFor(found) ==
    IF found # NoComment THEN "update_comment" ELSE "post_comment"

\* namespace.replace(NAMESPACE_PREFIX, "")
RECURSIVE WithoutPrefix(_)
WithoutPrefix(s) ==
    IF Len(s) < Len(NAMESPACE_PREFIX) THEN s
    ELSE IF SubSeq(s, 1, Len(NAMESPACE_PREFIX)) = NAMESPACE_PREFIX
         THEN WithoutPrefix(SubSeq(s, Len(NAMESPACE_PREFIX) + 1, Len(s)))
         ELSE CharAt(s, 1) \o WithoutPrefix(SubSeq(s, 2, Len(s)))

DigitValue(ch) ==
    CASE ch = "0" -> 0 [] ch = "1" -> 1 [] ch = "2" -> 2 [] ch = "3" -> 3
      [] ch = "4" -> 4 [] ch = "5" -> 5 [] ch = "6" -> 6 [] ch = "7" -> 7
      [] ch = "8" -> 8 [] ch = "9" -> 9

RECURSIVE DecimalValue(_)
DecimalValue(s) ==
    IF s = "" THEN 0
    ELSE DecimalValue(SubSeq(s, 1, Len(s) - 1)) * 10
         + DigitValue(CharAt(s, Len(s)))

\* int(text) of a text without sign, blanks or underscores: the number, or
\* ValueError
ParseInt(s) ==
    IF s # "" /\ \A i \in 1..Len(s) : CharAt(s, i) \in Digits
    THEN [ok |-> TRUE, value |-> DecimalValue(s)]
    ELSE [ok |-> FALSE, value |-> 0]

\* pr_number = int(namespace.replace(NAMESPACE_PREFIX, ""))
PrNumberOf(namespace) == ParseInt(WithoutPrefix(namespace))

\* the outcomes of a call of the GitHub client
GithubOutcomes == {"ok", "GitHubError"}

Note(call, pr, id, outcome) ==
    [call |-> call, pr |-> pr, id |-> id, outcome |-> outcome]

\* the run has returned
Returned(e, ret) == [e EXCEPT !.phase = "returned", !.ret = ret]

StartCreateEnvironment(p, namespace, file, github, template_dir) ==
    /\ pc[p] = "idle"
    /\ env[p].name = "none"
    /\ env' = [env EXCEPT ![p] =
                IF file.loadable
                THEN [NoEnv EXCEPT !.name = "create_environment",
                                   !.namespace = namespace,
                                   !.config = file.services,
                                   !.github = github,
                                   !.template_dir = template_dir,
                                   !.phase = "steps", !.pos = 1]
                ELSE Returned([NoEnv EXCEPT !.name = "create_environment",
                                            !.namespace = namespace,
                                            !.github = github], "False")]
    /\ UNCHANGED <<clients, nsLive, res, clock, pc, op, log, result, faulted,
                   opsDone, comments>>

StartDeleteEnvironment(p, namespace) ==
    /\ pc[p] = "idle"
    /\ env[p].name = "none"
    /\ env' = [env EXCEPT ![p] =
                [NoEnv EXCEPT !.name = "delete_environment",
                              !.namespace = namespace,
                              !.phase = "steps", !.pos = 1]]
    /\ UNCHANGED <<clients, nsLive, res, clock, pc, op, log, result, faulted,
                   opsDone, comments>>

\* the record of a finished call of a method of the client
StepEntry(p) ==
    [fn |-> CurrentStep(p).fn, name |-> CurrentStep(p).name,
     result |-> result[p],
     cluster |-> [i \in 1..Len(log[p]) |-> log[p][i].call],
     faulted |-> faulted[p]]

\* a method of the client returns to create_environment or
\* delete_environment, which goes on to its next call, to the
\* notification, or returns
StepReturns(p) ==
    /\ pc[p] = "done"
    /\ env[p].phase = "steps"
    /\ LET e == [env[p] EXCEPT !.calls = Append(@, StepEntry(p))]
           created == e.ingress_created \/ CurrentStep(p).fn = "create_ingress"
       IN env' = [env EXCEPT ![p] =
                    IF AfterStep(result[p]) = "abort"
                    THEN Returned(e, "False")
                    ELSE IF e.pos < Len(EnvSteps(e))
                    THEN [e EXCEPT !.pos = @ + 1, !.ingress_created = created]
                    ELSE IF e.name = "create_environment" /\ e.github /\ created
                    THEN [e EXCEPT !.phase = "find", !.ingress_created = created]
                    ELSE Returned([e EXCEPT !.ingress_created = created], "True")]
    /\ pc' = [pc EXCEPT ![p] = "idle"]
    /\ op' = [op EXCEPT ![p] = NoOp]
    /\ log' = [log EXCEPT ![p] = <<>>]
    /\ result' = [result EXCEPT ![p] = "None"]
    /\ faulted' = [faulted EXCEPT ![p] = FALSE]
    /\ UNCHANGED <<clients, nsLive, res, clock, opsDone, comments>>

\* if github and ingress_created: the pull request number is parsed (a
\* ValueError is caught by the outer handler, which returns False), then
\* github.find_bot_comment(pr_number)
FindBotComment(p) ==
    /\ env[p].phase = "find"
    /\ LET e == env[p]
           pr == PrNumberOf(e.namespace)
       IN IF ~pr.ok
          THEN env' = [env EXCEPT ![p] = Returned(e, "False")]
          ELSE \E outcome \in GithubOutcomes :
                env' = [env EXCEPT ![p] =
                    LET found == IF outcome = "ok" /\ pr.value \in PrNumbers
                                 THEN comments[pr.value] ELSE NoComment
                        noted == [e EXCEPT !.notes =
                                    Append(@, Note("find_bot_comment", pr.value,
                                                   found, outcome))]
                    IN IF outcome = "ok"
                       THEN [noted EXCEPT !.phase = "send", !.found = found]
                       ELSE Returned(noted, AfterNotify(outcome))]
    /\ UNCHANGED <<clients, nsLive, res, clock, pc, op, log, result, faulted,
                   opsDone, comments>>

\* github.post_comment(pr_number, message)
PostComment(p) ==
    /\ env[p].phase = "send"
    /\ SendCallFor(env[p].found) = "post_comment"
    /\ LET e == env[p]
           pr == PrNumberOf(e.namespace).value
       IN \E outcome \in GithubOutcomes, id \in CommentIds :
            /\ \A n \in PrNumbers : comments[n] # id
            /\ env' = [env EXCEPT ![p] =
                        Returned([e EXCEPT !.notes =
                                    Append(@, Note("post_comment", pr, NoComment,
                                                   outcome))],
                                 AfterNotify(outcome))]
            /\ comments' = IF outcome = "ok" /\ pr \in PrNumbers
                           THEN [comments EXCEPT ![pr] = id]
                           ELSE comments
    /\ UNCHANGED <<clients, nsLive, res, clock, pc, op, log, result, faulted,
                   opsDone>>

\* github.update_comment(pr_number, existing_comment_id, message)
UpdateComment(p) ==
    /\ env[p].phase = "send"
    /\ SendCallFor(env[p].found) = "update_comment"
    /\ LET e == env[p]
           pr == PrNumberOf(e.namespace).value
       IN \E outcome \in GithubOutcomes :
            env' = [env EXCEPT ![p] =
                        Returned([e EXCEPT !.notes =
                                    Append(@, Note("update_comment", pr, e.found,
                                                   outcome))],
                                 AfterNotify(outcome))]
    /\ UNCHANGED <<clients, nsLive, res, clock, pc, op, log, result, faulted,
                   opsDone, comments>>

(***************************************************************************)
(* One run of create_environment or delete_environment against a cluster   *)
(* that holds or lacks the namespace and at most one earlier resource      *)
(***************************************************************************)
\* the runs of create_environment that are drawn: namespace, configuration
\* file, GitHub client supplied or not, template directory
CreateRuns ==
    ({"pr-1"} \X {ConfigFile(TRUE, TwoRouted), ConfigFile(TRUE, Unrouted)}
              \X BOOLEAN \X {"complete"})
    \cup ({"pr-1"} \X {ConfigFile(TRUE, Mixed), ConfigFile(TRUE, Invalid)}
                   \X {TRUE} \X {"complete"})
    \cup ({"pr-X", "pr-x"} \X {ConfigFile(TRUE, Mixed)} \X {TRUE} \X {"complete"})
    \cup ({"pr-1"} \X {Unloadable} \X {TRUE} \X {"complete"})
    \cup ({"pr-1"} \X {ConfigFile(TRUE, Unrouted)} \X {FALSE}
                   \X (TemplateDirs \ {"complete"}))

EarlierEnv == [present |-> TRUE, spec |-> [owner |-> "earlier"], rv |-> 1]

EnvInitClusters(live) ==
    {AllAbsent} \cup
    { [AllAbsent EXCEPT ![s] = EarlierEnv] : s \in { t \in EnvSlots : t[1] \in live } }

InitEnv ==
    /\ clients = {1}
    /\ nsLive \in {{}, {"pr-1"}}
    /\ res \in EnvInitClusters(nsLive)
    /\ clock = 1
    /\ InitClient
    /\ comments \in { [n \in PrNumbers |-> NoComment],
                      [n \in PrNumbers |-> IF n = 1 THEN "c1" ELSE NoComment] }

\* the sub-calls of the run of p that were answered with a fault
FaultsOf(p) ==
    Cardinality({ i \in 1..Len(env[p].calls) : env[p].calls[i].faulted })
    + (IF faulted[p] THEN 1 ELSE 0)

WithinFaultBudget(p) == FaultsOf(p) <= MaxFaults

NextEnv ==
    \/ \E p \in clients, run \in CreateRuns :
            StartCreateEnvironment(p, run[1], run[2], run[3], run[4])
    \/ \E p \in clients, namespace \in EnvNamespaces :
            StartDeleteEnvironment(p, namespace)
    \/ \E p \in clients : CreateNamespace(p)
    \/ \E p \in clients : CreateDeployment(p)
    \/ \E p \in clients : CreateService(p)
    \/ \E p \in clients : CreateMiddleware(p)
    \/ \E p \in clients : CreateIngress(p)
    \/ \E p \in clients : DeleteNamespace(p)
    \/ \E p \in clients : NsCreate(p) /\ WithinFaultBudget(p)'
    \/ \E p \in clients : NsDelete(p) /\ WithinFaultBudget(p)'
    \/ \E p \in clients : StdCreate(p) /\ WithinFaultBudget(p)'
    \/ \E p \in clients : StdUpdate(p) /\ WithinFaultBudget(p)'
    \/ \E p \in clients : CrdCreate(p) /\ WithinFaultBudget(p)'
    \/ \E p \in clients : CrdFetch(p) /\ WithinFaultBudget(p)'
    \/ \E p \in clients : CrdPatch(p) /\ WithinFaultBudget(p)'
    \/ \E p \in clients : StepReturns(p)
    \/ \E p \in clients : FindBotComment(p)
    \/ \E p \in clients : PostComment(p)
    \/ \E p \in clients : UpdateComment(p)

SpecEnv == InitEnv /\ [][NextEnv]_vars

(***************************************************************************)
(* Two invocations, one per pull request, alone or side by side            *)
(***************************************************************************)
\* the namespace of the invocation: that of its pull request
NamespaceOf(p) == NAMESPACE_PREFIX \o (IF p = 1 THEN "1" ELSE "2")

OneRouted == <<Svc("web", "nginx:1.25", 80, TRUE, "/")>>

\* before the invocations the second namespace exists, with at most one
\* resource in it, and the first pull request carries a comment
InitiallyLive == {NamespaceOf(2)}

InitPair ==
    /\ clients \in {{1}, {2}, {1, 2}}
    /\ nsLive = InitiallyLive
    /\ res \in EnvInitClusters(nsLive)
    /\ clock = 1
    /\ InitClient
    /\ comments = [n \in PrNumbers |-> IF n = 1 THEN "c1" ELSE NoComment]

\* the cluster has answered the calls of the method p is in as its state
\* dictates
Faithful(p) == ~faulted[p]

NextPair ==
    \/ \E p \in clients :
            StartCreateEnvironment(p, NamespaceOf(p), ConfigFile(TRUE, OneRouted),
                                   TRUE, "complete")
    \/ \E p \in clients : StartDeleteEnvironment(p, NamespaceOf(p))
    \/ \E p \in clients : CreateNamespace(p)
    \/ \E p \in clients : CreateDeployment(p)
    \/ \E p \in clients : CreateService(p)
    \/ \E p \in clients : CreateMiddleware(p)
    \/ \E p \in clients : CreateIngress(p)
    \/ \E p \in clients : DeleteNamespace(p)
    \/ \E p \in clients : NsCreate(p) /\ Faithful(p)'
    \/ \E p \in clients : NsDelete(p) /\ Faithful(p)'
    \/ \E p \in clients : StdCreate(p) /\ Faithful(p)'
    \/ \E p \in clients : StdUpdate(p) /\ Faithful(p)'
    \/ \E p \in clients : CrdCreate(p) /\ Faithful(p)'
    \/ \E p \in clients : CrdFetch(p) /\ Faithful(p)'
    \/ \E p \in clients : CrdPatch(p) /\ Faithful(p)'
    \/ \E p \in clients : StepReturns(p)
    \/ \E p \in clients : FindBotComment(p)
    \/ \E p \in clients : PostComment(p)
    \/ \E p \in clients : UpdateComment(p)

SpecPair == InitPair /\ [][NextPair]_vars

(***************************************************************************)
(* Two clients apply the same custom resource in the same namespace at     *)
(* the same time; the cluster answers every call faithfully                *)
(***************************************************************************)
RaceNamespace == "pr-1"

\* the rendered stripprefix Middleware, in two renderings of its content
RaceDocs ==
    { MkDoc("map", ApiVersionOf("Middleware"), "Middleware", "map", "app",
            NoNs, s) : s \in {SpecA, SpecB} }

InitRace ==
    /\ clients = {1, 2}
    /\ nsLive = {RaceNamespace}
    /\ res \in {AllAbsent,
                [AllAbsent EXCEPT ![<<RaceNamespace, "middlewares", "app">>] = Earlier]}
    /\ clock = 1
    /\ InitClient
    /\ comments = [n \in PrNumbers |-> NoComment]

NextRace ==
    \/ \E p \in clients, doc \in RaceDocs : StartApply(p, doc, RaceNamespace)
    \/ \E p \in clients : CrdCreate(p) /\ Faithful(p)'
    \/ \E p \in clients : CrdFetch(p) /\ Faithful(p)'
    \/ \E p \in clients : CrdPatch(p) /\ Faithful(p)'

SpecRace == InitRace /\ [][NextRace]_vars


(***************************************************************************)
(* Properties                                                              *)
(***************************************************************************)
CreateCalls == {"create_from_dict", "create_namespaced_custom_object"}
FetchCalls == {"get_namespaced_custom_object"}
TypedUpdateCalls == {"patch_namespaced_deployment", "patch_namespaced_service",
                     "patch_namespaced_ingress"}
UpdateCalls == TypedUpdateCalls \cup {"patch_namespaced_custom_object"}

\* positions in the call log of client p that hold a call of the set cs
At(p, cs) == { i \in 1..Len(log[p]) : log[p][i].call \in cs }

Count(p, cs) == Cardinality(At(p, cs))

\* client p is inside, or at the end of, an _apply_yaml call
Applying(p) == op[p].name = "apply"

\* the _apply_yaml call of client p has returned
Applied(p) == Applying(p) /\ pc[p] = "done"

OnStdPath(p) == Applying(p) /\ ~op[p].manifest.isNone /\ ~IsTraefikCrd(op[p].manifest)

OnCrdPath(p) == Applying(p) /\ ~op[p].manifest.isNone /\ IsTraefikCrd(op[p].manifest)

\* the live resource the apply of client p targets
Target(p) ==
    Live(TargetType(op[p].manifest), op[p].ns, op[p].manifest.name)

\* every field the manifest sets has the manifest's value in the live object
Carries(live, manifest) ==
    /\ live.present
    /\ \A f \in DOMAIN manifest.spec :
          f \in DOMAIN live.spec /\ live.spec[f] = manifest.spec[f]

\* the second of two successive applies of one manifest has returned, the
\* first one succeeded and the cluster answered every call of the second
\* as its state dictates
SecondApplied(p) ==
    /\ Applied(p)
    /\ op[p].second
    /\ op[p].firstResult = "True"
    /\ ~faulted[p]

\* C1 (as stated): for every manifest, of a standard or a custom kind, whose
\* first apply succeeded, the second apply of the same manifest to the same
\* namespace succeeds too and leaves the live resource equal to the manifest.
C1_IdempotentForEveryManifest ==
    \A p \in clients :
        SecondApplied(p) =>
            /\ result[p] = "True"
            /\ Target(p).present
            /\ Target(p).spec = op[p].manifest.spec

\* C1 (amended): for a manifest of kind Deployment, Service or Ingress or of
\* a custom kind whose first apply succeeded, the second apply of the same
\* manifest to the same namespace succeeds, leaves the live resource as the
\* first apply left it, and every field the manifest sets has the
\* manifest's value in the live resource.
C1_IdempotentForRoutedKinds ==
    \A p \in clients :
        (/\ SecondApplied(p)
         /\ (op[p].manifest.kind \in TableKinds \/ OnCrdPath(p)))
        => /\ result[p] = "True"
           /\ Carries(Target(p), op[p].manifest)
           /\ Target(p).spec = op[p].wasSpec

\* a second apply of a Deployment, Service or Ingress went through the
\* conflict and the update and succeeded
C1_Witness ==
    \E p \in clients :
        /\ SecondApplied(p)
        /\ op[p].manifest.kind \in TableKinds
        /\ Count(p, TypedUpdateCalls) = 1
        /\ result[p] = "True"

\* C2: every create, fetch and update call that _apply_yaml issues addresses
\* the caller-supplied target namespace, whatever namespace the document
\* embeds.
C2_NamespaceForced ==
    \A p \in clients :
        Applying(p) =>
            \A i \in 1..Len(log[p]) : log[p][i].ns = op[p].ns

\* an apply of a document that embeds another namespace has issued a
\* create, a fetch and an update
C2_Witness ==
    \E p \in clients :
        /\ Applied(p)
        /\ op[p].doc.ns \notin {NoNs, op[p].ns}
        /\ Count(p, CreateCalls) = 1
        /\ Count(p, FetchCalls) = 1
        /\ Count(p, UpdateCalls) = 1

\* the create of the custom apply of client p was answered with a conflict
CrdConflict(p) ==
    /\ OnCrdPath(p)
    /\ Len(log[p]) >= 1
    /\ log[p][1].call = "create_namespaced_custom_object"
    /\ log[p][1].status = 409

\* C3: a custom-resource apply whose create is answered with 409 fetches the
\* existing object exactly once, before the update call, and the
\* resourceVersion sent in the update is the one that fetch returned (the
\* token comes from this call's own fetch, never from an earlier call).
C3_FetchOnceThenUpdateWithItsToken ==
    \A p \in clients :
        (Applied(p) /\ CrdConflict(p)) =>
            /\ At(p, FetchCalls) = {2}
            /\ At(p, UpdateCalls) \subseteq {3}
            /\ \A i \in At(p, UpdateCalls) :
                  /\ log[p][2].status = 200
                  /\ log[p][i].body.resourceVersion = log[p][2].body.resourceVersion
                  /\ log[p][i].body.resourceVersion # 0

\* a second custom apply met the conflict, fetched and updated with success
C3_Witness ==
    \E p \in clients :
        /\ Applied(p)
        /\ CrdConflict(p)
        /\ op[p].second
        /\ Count(p, UpdateCalls) = 1
        /\ log[p][3].status = 200


\* the update operation the claims name for each kind of the table
PatchOf(kind) ==
    CASE kind = "Deployment" -> "patch_namespaced_deployment"
      [] kind = "Service"    -> "patch_namespaced_service"
      [] kind = "Ingress"    -> "patch_namespaced_ingress"

\* client p takes the step that is one invocation of
\* _update_standard_resource
InvokesStdUpdate(p) == pc[p] = "std_update" /\ pc'[p] # "std_update"

\* C4: for every kind in {Deployment, Service, Ingress} one invocation of
\* _update_standard_resource issues exactly one call, the patch operation of
\* that kind with the given name, namespace and manifest body, and no fetch
\* precedes it.
C4_UpdateDispatch ==
    [][\A p \in clients :
        (InvokesStdUpdate(p) /\ op[p].manifest.kind \in TableKinds) =>
            /\ Len(log'[p]) = Len(log[p]) + 1
            /\ SubSeq(log'[p], 1, Len(log[p])) = log[p]
            /\ log'[p][Len(log'[p])].call = PatchOf(op[p].manifest.kind)
            /\ log'[p][Len(log'[p])].name = ResourceName(op[p].manifest)
            /\ log'[p][Len(log'[p])].ns = op[p].ns
            /\ log'[p][Len(log'[p])].body = op[p].manifest
            /\ At(p, FetchCalls) = {}
            /\ pc'[p] = "done"]_vars

\* the update of an existing Ingress went to the ingress patch
C4_Witness ==
    \E p \in clients :
        /\ Applied(p)
        /\ op[p].manifest.kind = "Ingress"
        /\ Len(log[p]) = 2
        /\ log[p][2].call = "patch_namespaced_ingress"
        /\ log[p][2].status = 200
        /\ result[p] = "True"

\* C5: for a kind outside {Deployment, Service, Ingress} an invocation of
\* _update_standard_resource returns failure and issues no cluster call; so
\* a standard apply of such a kind onto an existing resource fails after its
\* single create attempt.
C5_UnsupportedKindFails ==
    /\ [][\A p \in clients :
            (InvokesStdUpdate(p) /\ op[p].manifest.kind \notin TableKinds) =>
                /\ pc'[p] = "done"
                /\ result'[p] = "False"
                /\ log'[p] = log[p]
                /\ res' = res
                /\ nsLive' = nsLive
                /\ clock' = clock]_vars
    /\ [](\A p \in clients :
            (/\ Applied(p)
             /\ OnStdPath(p)
             /\ op[p].manifest.kind \notin TableKinds
             /\ op[p].wasPresent
             /\ ~faulted[p])
            => /\ result[p] = "False"
               /\ Len(log[p]) = 1
               /\ log[p][1].call = "create_from_dict")

\* the apply of a ConfigMap onto an existing one has failed after its create
C5_Witness ==
    \E p \in clients :
        /\ Applied(p)
        /\ op[p].manifest.kind = "ConfigMap"
        /\ op[p].wasPresent
        /\ ~faulted[p]
        /\ Len(log[p]) = 1
        /\ log[p][1].status = 409
        /\ result[p] = "False"

\* a standard apply onto an existing resource has returned, the cluster
\* having answered every call as its state dictates
StdAppliedOnPresent(p) ==
    /\ Applied(p)
    /\ OnStdPath(p)
    /\ op[p].wasPresent
    /\ ~faulted[p]

\* one create attempt that ends in conflict, then one update call routed to
\* the update operation of the kind; success, and the resource is Present
ConflictThenUpdate(p) ==
    /\ Len(log[p]) = 2
    /\ log[p][1].call = "create_from_dict"
    /\ log[p][1].status = 409
    /\ log[p][2].call \in TypedUpdateCalls
    /\ log[p][2].type = op[p].manifest.kind
    /\ log[p][2].status = 200
    /\ result[p] = "True"
    /\ Target(p).present

\* C6 (as stated): applying a standard manifest whose resource exists gives
\* exactly one create attempt, ending in conflict, no create success, and
\* exactly one update call routed to the update operation of the manifest's
\* kind; the apply returns success and the resource stays Present.
C6_EveryStandardKindUpdates ==
    \A p \in clients : StdAppliedOnPresent(p) => ConflictThenUpdate(p)

\* C6 (amended): the same, for a manifest of kind Deployment, Service or
\* Ingress.
C6_TableKindUpdates ==
    \A p \in clients :
        (StdAppliedOnPresent(p) /\ op[p].manifest.kind \in TableKinds)
        => /\ ConflictThenUpdate(p)
           /\ log[p][2].call = PatchOf(op[p].manifest.kind)

\* the first apply of a Deployment onto an earlier Deployment has succeeded
\* through the deployment patch
C6_Witness ==
    \E p \in clients :
        /\ StdAppliedOnPresent(p)
        /\ ~op[p].second
        /\ op[p].manifest.kind = "Deployment"
        /\ log[p][2].call = "patch_namespaced_deployment"
        /\ result[p] = "True"

\* a standard apply of a named manifest into an existing namespace where the
\* resource is Absent has returned, the cluster having answered as its
\* state dictates
StdAppliedOnAbsent(p) ==
    /\ Applied(p)
    /\ OnStdPath(p)
    /\ ~op[p].wasPresent
    /\ op[p].nsWasLive
    /\ op[p].manifest.name # NoName
    /\ ~faulted[p]

\* C7: applying a standard manifest whose resource is Absent gives exactly
\* one create call and no update call, returns success and makes the
\* resource Present (with the manifest's content).
C7_AbsentIsCreated ==
    \A p \in clients :
        StdAppliedOnAbsent(p) =>
            /\ Len(log[p]) = 1
            /\ log[p][1].call = "create_from_dict"
            /\ log[p][1].status = 201
            /\ Count(p, UpdateCalls) = 0
            /\ result[p] = "True"
            /\ Target(p).present
            /\ Target(p).spec = op[p].manifest.spec

\* a Service that did not exist has been created
C7_Witness ==
    \E p \in clients :
        /\ StdAppliedOnAbsent(p)
        /\ op[p].manifest.kind = "Service"
        /\ result[p] = "True"
        /\ Target(p).present

\* C8: when the create call fails with anything but an already-exists
\* conflict (any status other than 409, on the standard or the custom path)
\* the apply returns failure at once, with no fetch and no update call.
C8_UpdateOnlyAfterConflict ==
    \A p \in clients :
        (/\ Applying(p)
         /\ Len(log[p]) >= 1
         /\ log[p][1].call \in CreateCalls
         /\ log[p][1].status \notin {201, 409})
        => /\ pc[p] = "done"
           /\ result[p] = "False"
           /\ Len(log[p]) = 1

\* C9: an _apply_yaml call issues at most one create, at most one fetch
\* (custom path only) and at most one update; an update that fails is the
\* last call of the apply, which then ends without success.
C9_NoRetry ==
    \A p \in clients :
        Applying(p) =>
            /\ Count(p, CreateCalls) <= 1
            /\ Count(p, FetchCalls) <= 1
            /\ OnStdPath(p) => Count(p, FetchCalls) = 0
            /\ Count(p, UpdateCalls) <= 1
            /\ \A i \in At(p, UpdateCalls) :
                  log[p][i].status # 200 =>
                      /\ i = Len(log[p])
                      /\ pc[p] = "done"
                      /\ result[p] \in {"False", "Raise"}

\* the update after a conflict was rejected and the apply returned failure
C9_Witness ==
    \E p \in clients :
        /\ Applied(p)
        /\ Len(log[p]) = 2
        /\ log[p][1].status = 409
        /\ log[p][2].call \in UpdateCalls
        /\ log[p][2].status = 500
        /\ result[p] = "False"

\* the create_namespace call of client p has returned after its cluster call
NamespaceCreateReturned(p) ==
    /\ op[p].name = "create_namespace"
    /\ pc[p] = "done"
    /\ Len(log[p]) = 1

\* C10: create_namespace on a namespace that exists (the cluster answers
\* 409) returns True and leaves the namespace present; any other API error
\* returns False.
C10_CreateNamespaceIdempotent ==
    \A p \in clients :
        NamespaceCreateReturned(p) =>
            /\ log[p][1].status = 409 => result[p] = "True"
            /\ (op[p].nsWasLive /\ ~faulted[p]) =>
                    /\ log[p][1].status = 409
                    /\ result[p] = "True"
                    /\ op[p].ns \in nsLive
            /\ log[p][1].status \in {403, 500} => result[p] = "False"

\* create_namespace on an existing namespace has returned True
C10_Witness ==
    \E p \in clients :
        /\ NamespaceCreateReturned(p)
        /\ op[p].nsWasLive
        /\ log[p][1].status = 409
        /\ result[p] = "True"


(***************************************************************************)
(* delete_namespace                                                        *)
(***************************************************************************)
NamespaceDeleteReturned(p) ==
    /\ p \in clients
    /\ pc[p] = "done"
    /\ op[p].name = "delete_namespace"

\* the cluster answered the delete with this status
DeleteAnswered(p, status) ==
    /\ NamespaceDeleteReturned(p)
    /\ Len(log[p]) > 0
    /\ log[p][Len(log[p])].status = status

\* C11: delete_namespace on a namespace that does not exist (the cluster
\* answers 404) does not raise: it issues exactly one delete call and
\* returns False.
C11_DeleteMissingReturnsFalse ==
    \A p \in Procs :
        DeleteAnswered(p, 404) =>
            /\ result[p] = "False"
            /\ Len(log[p]) = 1
            /\ log[p][1].call = "delete_namespace"

\* a delete of a namespace that was absent has returned
C11_Witness ==
    \E p \in Procs :
        /\ DeleteAnswered(p, 404)
        /\ ~op[p].nsWasLive
        /\ ~faulted[p]
        /\ result[p] = "False"

\* C12 (as stated): the deletion that finds nothing is reported as a
\* success, and so differs from the deletion the cluster refuses with a 500,
\* which is reported as a failure.
C12_NotFoundReportedAsSuccess ==
    \A p \in Procs :
        /\ DeleteAnswered(p, 404) => result[p] = "True"
        /\ DeleteAnswered(p, 500) => result[p] = "False"

(***************************************************************************)
(* create_environment                                                      *)
(***************************************************************************)
Creating(p) == p \in clients /\ env[p].name = "create_environment"

Finished(p) == env[p].phase = "returned"

\* the call of a method of the client ended in a failure
Failed(entry) == entry.result \in {"False", "Raise"}

\* the calls of methods of the client made so far: those that returned and
\* the one in progress
Issued(p) ==
    [i \in 1..Len(env[p].calls) |->
        [fn |-> env[p].calls[i].fn, name |-> env[p].calls[i].name]]
    \o (IF env[p].phase = "steps" /\ pc[p] # "idle"
        THEN <<[fn |-> CurrentStep(p).fn, name |-> CurrentStep(p).name]>>
        ELSE <<>>)

\* the cluster calls of the call in progress
InProgress(p) == IF env[p].phase = "steps" THEN log[p] ELSE <<>>

\* C13 (as stated): once a step of create_environment has failed, no later
\* step issues a call against the cluster.
C13_FailFast ==
    \A p \in Procs :
        Creating(p) =>
            \A i \in 1..Len(env[p].calls) :
                Failed(env[p].calls[i]) =>
                    /\ \A j \in (i + 1)..Len(env[p].calls) :
                            env[p].calls[j].cluster = <<>>
                    /\ InProgress(p) = <<>>

\* what the i-th step of the run of p applies: the resource type, the name
\* and the contents
StepType(p, i) == TargetType([apiVersion |-> ApiVersionOf(TemplateKind(EnvSteps(env[p])[i].fn)),
                              kind |-> TemplateKind(EnvSteps(env[p])[i].fn)])

StepData(p, i) == TemplateData(EnvSteps(env[p])[i], env[p].namespace)

\* the i-th step of the run of p applied a resource and reported success
AppliedOk(p, i) ==
    /\ env[p].calls[i].fn \notin {"create_namespace", "delete_namespace"}
    /\ env[p].calls[i].result = "True"

\* the live resource is the one the i-th step applied
StillApplied(p, i) ==
    LET live == Live(StepType(p, i), env[p].namespace, env[p].calls[i].name)
    IN /\ live.present
       /\ \A f \in DOMAIN StepData(p, i) :
            f \in DOMAIN live.spec /\ live.spec[f] = StepData(p, i)[f]

DeleteCalls == {"delete_namespace"}

\* C14: create_environment does not roll back.  Whatever happens later in
\* the run, a namespace it created and every resource a step of it created
\* or updated stay as that step left them, and no delete call is issued.
C14_NoRollback ==
    \A p \in Procs :
        Creating(p) =>
            /\ \A i \in 1..Len(env[p].calls) :
                /\ \A k \in 1..Len(env[p].calls[i].cluster) :
                        env[p].calls[i].cluster[k] \notin DeleteCalls
                /\ AppliedOk(p, i) => StillApplied(p, i)
                /\ ( /\ env[p].calls[i].fn = "create_namespace"
                     /\ env[p].calls[i].result = "True" )
                   => env[p].namespace \in nsLive
            /\ \A k \in 1..Len(InProgress(p)) :
                    InProgress(p)[k].call \notin DeleteCalls
            /\ \A i \in 1..Len(Issued(p)) : Issued(p)[i].fn # "delete_namespace"

\* a run has returned in which a step failed after an earlier step had
\* applied its resource
C14_Witness ==
    \E p \in Procs :
        /\ Creating(p)
        /\ Finished(p)
        /\ \E i, j \in 1..Len(env[p].calls) :
            /\ i < j
            /\ AppliedOk(p, i)
            /\ StillApplied(p, i)
            /\ Failed(env[p].calls[j])

\* the stage of the sequence a method belongs to
Rank(fn) ==
    CASE fn = "create_namespace"  -> 0
      [] fn = "create_deployment" -> 1
      [] fn = "create_service"    -> 1
      [] fn = "create_middleware" -> 2
      [] fn = "create_ingress"    -> 3
      [] OTHER                    -> 4

IssuedOf(p, fns) == SelectSeq(Issued(p), LAMBDA c : c.fn \in fns)

Enabled(p) == SelectSeq(env[p].config, LAMBDA service : service.ingress)

\* C15: the calls of create_environment come one at a time in the fixed
\* order: the namespace; for each service in configuration order its
\* deployment, then its service; the middleware, once; then one ingress for
\* each service with ingress enabled, in configuration order.  A run that no
\* exception ends makes all of them.
C15_FixedOrder ==
    \A p \in Procs :
        Creating(p) =>
            /\ Len(Issued(p)) <= Len(env[p].calls) + 1
            /\ Len(Issued(p)) > 0 => Issued(p)[1].fn = "create_namespace"
            /\ \A i, j \in 1..Len(Issued(p)) :
                    i < j => Rank(Issued(p)[i].fn) <= Rank(Issued(p)[j].fn)
            /\ Len(IssuedOf(p, {"create_namespace"})) <= 1
            /\ Len(IssuedOf(p, {"create_middleware"})) <= 1
            /\ LET pairs == IssuedOf(p, {"create_deployment", "create_service"})
               IN /\ Len(pairs) <= 2 * Len(env[p].config)
                  /\ \A k \in 1..Len(pairs) :
                        /\ pairs[k].fn = IF k % 2 = 1 THEN "create_deployment"
                                         ELSE "create_service"
                        /\ pairs[k].name = env[p].config[(k + 1) \div 2].name
            /\ LET ingresses == IssuedOf(p, {"create_ingress"})
               IN /\ Len(ingresses) <= Len(Enabled(p))
                  /\ \A k \in 1..Len(ingresses) :
                        ingresses[k].name =
                            IngressName(env[p].namespace, Enabled(p)[k].name)
            /\ ( /\ Finished(p)
                 /\ \A i \in 1..Len(env[p].calls) : env[p].calls[i].result # "Raise"
                 /\ Len(env[p].calls) > 0 )
               => /\ Len(IssuedOf(p, {"create_middleware"})) = 1
                  /\ Len(IssuedOf(p, {"create_deployment", "create_service"}))
                        = 2 * Len(env[p].config)
                  /\ Len(IssuedOf(p, {"create_ingress"})) = Len(Enabled(p))

\* a run over two routed services has made its eight calls
C15_Witness ==
    \E p \in Procs :
        /\ Creating(p)
        /\ Finished(p)
        /\ Len(env[p].config) = 2
        /\ Len(Enabled(p)) = 2
        /\ Len(env[p].calls) = 8
        /\ env[p].calls[8].fn = "create_ingress"
        /\ env[p].calls[8].result = "True"

\* C16 (as stated): create_environment returns False whenever a step
\* failed, and True only if every step succeeded.
C16_FalseWhenAStepFailed ==
    \A p \in Procs :
        (Creating(p) /\ Finished(p)) =>
            /\ (\E i \in 1..Len(env[p].calls) : Failed(env[p].calls[i]))
                    => env[p].ret = "False"
            /\ env[p].ret = "True"
                    => \A i \in 1..Len(env[p].calls) : env[p].calls[i].result = "True"

\* a call of the GitHub client of the run of p failed with GitHubError
NotifyFailed(p) ==
    \E k \in 1..Len(env[p].notes) : env[p].notes[k].outcome = "GitHubError"

Notifying(p) == env[p].phase \in {"find", "send"}

\* C17: a GitHubError of find_bot_comment, post_comment or update_comment
\* does not fail the run: create_environment returns True, and the step in
\* which it is raised changes nothing in the cluster.
C17_NotifyFailureNotFatal ==
    /\ [](\A p \in Procs :
            (Creating(p) /\ Finished(p) /\ NotifyFailed(p)) => env[p].ret = "True")
    /\ [][\A p \in Procs : Notifying(p) => UNCHANGED <<nsLive, res, clock>>]_vars

\* a run has returned after a GitHubError
C17_Witness ==
    \E p \in Procs :
        /\ Creating(p)
        /\ Finished(p)
        /\ NotifyFailed(p)
        /\ env[p].ret = "True"
        /\ env[p].namespace \in nsLive

SendCalls == {"post_comment", "update_comment"}

NotesOf(p, cs) == SelectSeq(env[p].notes, LAMBDA n : n.call \in cs)

\* C18 (as stated): a comment is posted or updated only if the namespace
\* creation and every apply before it succeeded.
C18_NotifyOnlyAfterSuccess ==
    \A p \in Procs :
        (Creating(p) /\ Len(NotesOf(p, SendCalls)) > 0) =>
            \A i \in 1..Len(env[p].calls) : env[p].calls[i].result = "True"

\* C19: one run sends at most one comment: update_comment, with the id
\* found, exactly when find_bot_comment returned a comment, post_comment
\* exactly when it returned none; without a GitHub client or without a
\* routed service the GitHub client is not called at all.
C19_OneCommentPerRun ==
    \A p \in Procs :
        Creating(p) =>
            LET finds == NotesOf(p, {"find_bot_comment"})
                posts == NotesOf(p, {"post_comment"})
                updates == NotesOf(p, {"update_comment"})
            IN /\ Len(finds) <= 1
               /\ Len(posts) + Len(updates) <= 1
               /\ Len(posts) + Len(updates) > 0 =>
                    /\ Len(finds) = 1
                    /\ env[p].notes[1] = finds[1]
                    /\ finds[1].outcome = "ok"
               /\ Len(updates) = 1 =>
                    /\ finds[1].id # NoComment
                    /\ updates[1].id = finds[1].id
                    /\ updates[1].pr = finds[1].pr
               /\ Len(posts) = 1 => finds[1].id = NoComment
               /\ (Finished(p) /\ Len(finds) = 1 /\ finds[1].outcome = "ok") =>
                    /\ finds[1].id # NoComment => Len(updates) = 1
                    /\ finds[1].id = NoComment => Len(posts) = 1
               /\ (~env[p].github \/ Len(Enabled(p)) = 0) => env[p].notes = <<>>

\* a run has found the earlier comment and updated it
C19_Witness ==
    \E p \in Procs :
        /\ Creating(p)
        /\ Finished(p)
        /\ Len(env[p].notes) = 2
        /\ env[p].notes[1].call = "find_bot_comment"
        /\ env[p].notes[1].id \in CommentIds
        /\ env[p].notes[2].call = "update_comment"
        /\ env[p].notes[2].id = env[p].notes[1].id

\* an argument of the step is not a valid name, image or port
InvalidInput(step, namespace) ==
    \/ ~ValidK8sName(step.name)
    \/ ~ValidK8sName(namespace)
    \/ step.fn = "create_deployment" /\ ~ValidImageName(step.service.image)
    \/ /\ step.fn \in {"create_deployment", "create_service", "create_ingress"}
       /\ ~ValidPort(step.service.port)

\* C20: a method given an invalid name, namespace, image or port returns
\* False at once: no template is rendered, no cluster call is issued, and
\* the method is not called again.
C20_ValidationFirst ==
    \A p \in Procs :
        env[p].phase \in {"steps", "find", "send", "returned"} =>
            /\ ( /\ env[p].phase = "steps"
                 /\ pc[p] # "idle"
                 /\ InvalidInput(CurrentStep(p), env[p].namespace) )
               => /\ pc[p] = "done"
                  /\ result[p] = "False"
                  /\ log[p] = <<>>
                  /\ ~op[p].rendered
            /\ \A i \in 1..Len(env[p].calls) :
                InvalidInput(EnvSteps(env[p])[i], env[p].namespace) =>
                    /\ env[p].calls[i].result = "False"
                    /\ env[p].calls[i].cluster = <<>>
            /\ Len(env[p].calls) <= Len(EnvSteps(env[p]))
            /\ \A i \in 1..Len(env[p].calls) :
                env[p].calls[i].fn = EnvSteps(env[p])[i].fn

\* create_deployment has returned False for an image without a tag
C20_Witness ==
    \E p \in Procs :
        /\ env[p].phase = "steps"
        /\ pc[p] = "done"
        /\ CurrentStep(p).fn = "create_deployment"
        /\ ValidK8sName(CurrentStep(p).name)
        /\ ValidK8sName(env[p].namespace)
        /\ ~ValidImageName(CurrentStep(p).service.image)
        /\ result[p] = "False"
        /\ log[p] = <<>>

(***************************************************************************)
(* delete_environment                                                      *)
(***************************************************************************)
Deleting(p) == p \in clients /\ env[p].name = "delete_environment"

\* a resource that was present is not present any more
LeavesPresent(s) == res[s].present /\ ~res'[s].present

\* C21: a resource leaves the Present state only when its whole namespace
\* is deleted.  delete_environment calls delete_namespace once, for its
\* namespace, and issues no other cluster call; create_environment and the
\* applies issue no delete call, and no delete call addresses a resource.
C21_OnlyNamespaceDeletion ==
    /\ [][\A s \in Slots :
            LeavesPresent(s) => (s[1] \in nsLive /\ s[1] \notin nsLive')]_vars
    /\ [](\A p \in Procs :
            /\ \A k \in 1..Len(log[p]) :
                log[p][k].call \in DeleteCalls =>
                    /\ log[p][k].type = "Namespace"
                    /\ op[p].method = "delete_namespace"
            /\ Deleting(p) =>
                /\ Len(env[p].calls) <= 1
                /\ Len(log[p]) <= 1
                /\ \A k \in 1..Len(log[p]) :
                    /\ log[p][k].call = "delete_namespace"
                    /\ log[p][k].name = env[p].namespace
                /\ Finished(p) =>
                    /\ Len(env[p].calls) = 1
                    /\ env[p].calls[1].fn = "delete_namespace"
                    /\ env[p].calls[1].name = env[p].namespace
                    /\ env[p].calls[1].cluster =
                        IF ValidK8sName(env[p].namespace)
                        THEN <<"delete_namespace">> ELSE <<>>
            /\ Creating(p) =>
                \A i \in 1..Len(env[p].calls) :
                    \A k \in 1..Len(env[p].calls[i].cluster) :
                        env[p].calls[i].cluster[k] \notin DeleteCalls)

\* the one delete call of delete_environment has removed a namespace that
\* was live
C21_Witness ==
    \E p \in Procs :
        /\ Deleting(p)
        /\ pc[p] = "done"
        /\ op[p].nsWasLive
        /\ Len(log[p]) = 1
        /\ log[p][1].call = "delete_namespace"
        /\ result[p] = "True"
        /\ env[p].namespace \notin nsLive
        /\ \A s \in Slots : s[1] = env[p].namespace => ~res[s].present

(***************************************************************************)
(* Invocations for different namespaces                                    *)
(***************************************************************************)
\* what the cluster holds of a namespace
NsState(ns) ==
    <<ns \in nsLive, [s \in { t \in Slots : t[1] = ns } |-> res[s]]>>

\* what an invocation that runs alone against a faithful cluster ends
\* with: create_environment with every call True, its namespace live and
\* holding what it applied; delete_environment with its namespace gone
AloneOutcome(p) ==
    /\ env[p].ret = "True"
    /\ Creating(p) =>
        /\ Len(env[p].calls) = Len(EnvSteps(env[p]))
        /\ \A i \in 1..Len(env[p].calls) :
            /\ env[p].calls[i].result = "True"
            /\ AppliedOk(p, i) => StillApplied(p, i)
        /\ env[p].namespace \in nsLive
    /\ Deleting(p) =>
        /\ Len(env[p].calls) = 1
        /\ env[p].calls[1].result =
            (IF env[p].namespace \in InitiallyLive THEN "True" ELSE "False")
        /\ env[p].namespace \notin nsLive
        /\ \A s \in Slots : s[1] = env[p].namespace => ~res[s].present

\* C22: two invocations for different namespaces do not interfere.  Each
\* call addresses the namespace of its own invocation, the state of a
\* namespace changes only in a call of the invocation that owns it, and an
\* invocation ends as it ends when it runs alone.
C22_DistinctNamespacesIndependent ==
    /\ [](\A p \in clients :
            /\ \A k \in 1..Len(log[p]) : log[p][k].ns = env[p].namespace
            /\ Finished(p) => AloneOutcome(p))
    /\ [][\A ns \in Namespaces :
            NsState(ns)' # NsState(ns) =>
                \E p \in clients :
                    /\ env[p].namespace = ns
                    /\ log'[p] # log[p]
                    /\ Len(log'[p]) > 0]_vars

\* the second invocation has deleted its namespace while the first is in
\* the middle of creating its environment
C22_Witness ==
    /\ clients = {1, 2}
    /\ Deleting(2)
    /\ Finished(2)
    /\ env[2].calls[1].result = "True"
    /\ Creating(1)
    /\ pc[1] = "std_create"
    /\ Len(env[1].calls) = 2
    /\ env[1].namespace \in nsLive
    /\ env[2].namespace \notin nsLive

\* C23 (as stated): delete_environment returns False when the cluster
\* rejects the deletion with an error other than not-found, and True only
\* when the deletion was accepted or the namespace was already gone.
C23_DeleteFailureReturnsFalse ==
    \A p \in Procs :
        (Deleting(p) /\ Finished(p)) =>
            /\ ( /\ env[p].calls[1].cluster = <<"delete_namespace">>
                 /\ env[p].calls[1].faulted )
               => env[p].ret = "False"
            /\ env[p].ret = "True" =>
                /\ env[p].calls[1].cluster = <<"delete_namespace">>
                /\ ~env[p].calls[1].faulted

(***************************************************************************)
(* Failures inside the methods of the client                               *)
(***************************************************************************)
\* C24 (as stated): a method whose template cannot be rendered returns
\* False and issues no cluster call.
C24_RenderFailureReturnsFalse ==
    \A p \in Procs :
        ( /\ env[p].phase = "steps"
          /\ pc[p] = "done"
          /\ op[p].rendered
          /\ RenderOutcome(env[p].template_dir, CurrentStep(p).fn) = "TemplateError" )
        => /\ result[p] = "False"
           /\ log[p] = <<>>

\* the typed patch call at position i of the log of p was answered with an
\* API error
UpdateApiError(p, i) ==
    /\ i \in At(p, TypedUpdateCalls)
    /\ log[p][i].status >= 400

\* C25 (as stated): the update dispatch hands the API error of its patch
\* call on to its caller, and no further call is made.
C25_UpdateErrorPropagated ==
    \A p \in clients :
        Applying(p) =>
            \A i \in 1..Len(log[p]) :
                UpdateApiError(p, i) =>
                    /\ i = Len(log[p])
                    /\ pc[p] = "done"
                    /\ result[p] = "Raise"

\* C25 (amended): the update dispatch catches the API error of its patch
\* call and reports it as the return value False; no further call is made.
C25_UpdateErrorReturnsFalse ==
    \A p \in clients :
        Applying(p) =>
            \A i \in 1..Len(log[p]) :
                UpdateApiError(p, i) =>
                    /\ i = Len(log[p])
                    /\ pc[p] = "done"
                    /\ result[p] = "False"

\* the patch of a Service was refused with 403 and the apply returned False
C25_Witness ==
    \E p \in clients :
        /\ Applied(p)
        /\ Len(log[p]) = 2
        /\ log[p][2].call = "patch_namespaced_service"
        /\ log[p][2].status = 403
        /\ result[p] = "False"

\* the document cannot be parsed into a resource: it is not YAML, it is
\* empty, or its metadata is null and cannot take the namespace
Unparseable(doc) ==
    \/ doc.yaml \in {"invalid", "empty"}
    \/ doc.meta = "null"

\* C26: an apply of a document that cannot be parsed ends at once with
\* False: no create, fetch or update call is issued, and nothing is tried
\* again.
C26_ParseFailureTerminal ==
    \A p \in clients :
        (Applying(p) /\ Unparseable(op[p].doc)) =>
            /\ pc[p] = "done"
            /\ result[p] = "False"
            /\ log[p] = <<>>
            /\ op[p].manifest.isNone

\* the apply of a document with a null metadata has returned False
C26_Witness ==
    \E p \in clients :
        /\ Applied(p)
        /\ op[p].doc.yaml = "map"
        /\ op[p].doc.meta = "null"
        /\ result[p] = "False"
        /\ log[p] = <<>>

\* the apiVersion names one of the known custom-resource groups
KnownCustomGroup(doc) ==
    \E i \in 1..Len(doc.apiVersion) :
        doc.apiVersion[i] \in {"traefik.io", "traefik.containo.us"}

CustomObjectCalls ==
    {"create_namespaced_custom_object", "get_namespaced_custom_object",
     "patch_namespaced_custom_object"}

\* C27: a parsed document of a known custom group is applied through the
\* custom-object calls only, and any other document never through them.
\* The custom-object create is the first call and is made once, with the
\* two parts of apiVersion as group and version, "middlewares" as plural
\* of Middleware, the namespace of the apply, and the parsed manifest as
\* body; when it creates the resource no other call follows.
C27_CustomRouting ==
    \A p \in clients :
        (Applying(p) /\ ~Unparseable(op[p].doc)) =>
            LET doc == op[p].doc
                creates == {i \in 1..Len(log[p]) :
                              log[p][i].call = "create_namespaced_custom_object"}
            IN /\ KnownCustomGroup(doc) =>
                    \A i \in 1..Len(log[p]) : log[p][i].call \in CustomObjectCalls
               /\ ~KnownCustomGroup(doc) =>
                    \A i \in 1..Len(log[p]) : log[p][i].call \notin CustomObjectCalls
               /\ creates \subseteq {1}
               /\ (KnownCustomGroup(doc) /\ Len(doc.apiVersion) = 2
                        /\ pc[p] # "crd_create") => creates = {1}
               /\ \A i \in creates :
                    /\ log[p][i].api = <<doc.apiVersion[1], doc.apiVersion[2]>>
                    /\ doc.kind = "Middleware" => log[p][i].type = "middlewares"
                    /\ log[p][i].ns = op[p].ns
                    /\ log[p][i].name = doc.name
                    /\ log[p][i].body.apiVersion = doc.apiVersion
                    /\ log[p][i].body.kind = doc.kind
                    /\ log[p][i].body.spec = doc.spec
                    /\ log[p][i].body.namespace = op[p].ns
                    /\ log[p][i].status = 201 => Len(log[p]) = 1

\* a Middleware that did not exist has been created by one custom-object
\* create addressed to traefik.io / v1alpha1 / middlewares
C27_Witness ==
    \E p \in clients :
        /\ Applied(p)
        /\ op[p].doc.kind = "Middleware"
        /\ ~op[p].wasPresent
        /\ result[p] = "True"
        /\ Len(log[p]) = 1
        /\ log[p][1].call = "create_namespaced_custom_object"
        /\ log[p][1].api = <<"traefik.io", "v1alpha1">>
        /\ log[p][1].type = "middlewares"
        /\ log[p][1].status = 201

\* C28: whatever the document and whatever way a cluster call fails, an
\* _apply_yaml call ends by returning True or False; no exception leaves
\* it.
C28_ApplyReturnsBoolean ==
    \A p \in clients :
        Applied(p) => result[p] \in {"True", "False"}

\* every cluster step of the creation run was made and returned True
AllStepsSucceeded(p) ==
    /\ env[p].name = "create_environment"
    /\ Len(env[p].calls) = Len(EnvSteps(env[p]))
    /\ \A i \in 1..Len(env[p].calls) : env[p].calls[i].result = "True"

\* C29: whatever the namespace string and whatever fails while the comment
\* is built, looked up, posted or updated, a creation run whose cluster
\* steps all completed returns True.
C29_NotificationNeverFails ==
    \A p \in clients :
        (AllStepsSucceeded(p) /\ env[p].phase = "returned")
            => env[p].ret = "True"

(***************************************************************************)
(* Concurrent applies of one custom resource                               *)
(***************************************************************************)
\* the clients whose custom-object create was answered 201
CreatedBy ==
    { p \in clients :
        \E i \in 1..Len(log[p]) :
            /\ log[p][i].call = "create_namespaced_custom_object"
            /\ log[p][i].status = 201 }

CallsOf(p, call) == { i \in 1..Len(log[p]) : log[p][i].call = call }

\* the resourceVersion the client fetched is no longer the live one
Stale(p) ==
    /\ pc[p] = "crd_patch"
    /\ op[p].manifest.resourceVersion #
            Live("middlewares", op[p].ns, op[p].manifest.name).rv

\* C30: when two clients apply the same Middleware in the same live
\* namespace, in every interleaving at most one create is answered 201 and
\* the Middleware is present once both applies have ended; no apply fetches
\* or updates twice; and an update sent with a resourceVersion that the
\* other client's update has made stale is rejected with 409, changes
\* nothing and ends the apply with False.
C30_ConcurrentApplies ==
    /\ [](/\ Cardinality(CreatedBy) <= 1
          /\ (\A p \in clients : Applied(p)) =>
                Live("middlewares", RaceNamespace, "app").present
          /\ \A p \in clients :
                /\ Cardinality(CallsOf(p, "get_namespaced_custom_object")) <= 1
                /\ Cardinality(CallsOf(p, "patch_namespaced_custom_object")) <= 1)
    /\ [][\A p \in clients :
            (Stale(p) /\ pc'[p] # "crd_patch") =>
                /\ log'[p][Len(log'[p])].call = "patch_namespaced_custom_object"
                /\ log'[p][Len(log'[p])].status = 409
                /\ pc'[p] = "done"
                /\ result'[p] = "False"
                /\ res' = res]_vars

\* both applies have ended: one updated the Middleware, the other had its
\* update rejected and returned False
C30_Witness ==
    \E p, q \in clients :
        /\ p # q
        /\ Applied(p) /\ Applied(q)
        /\ result[p] = "True"
        /\ log[p][Len(log[p])].call = "patch_namespaced_custom_object"
        /\ result[q] = "False"
        /\ Len(log[q]) = 3
        /\ log[q][3].call = "patch_namespaced_custom_object"
        /\ log[q][3].status = 409
        /\ Live("middlewares", RaceNamespace, "app").present

====
